---- MODULE Spec2Model ----
(***************************************************************************)
(* The SICOM report generator (src/web_app.py): a Streamlit script that is *)
(* re-run on every widget interaction.  One press of "Generate Full        *)
(* Report" runs the pipeline of lines 63-167 statement block by statement  *)
(* block; pc is the position of the script inside that run.                *)
(*                                                                         *)
(* Optional Python values are sequences: <<>> is None, <<v>> is v.         *)
(* Floats are records [k, n, d]: k = "fin" is the number n/d (d > 0),      *)
(* k = "nan" / "inf" / "ninf" are the IEEE-754 specials numpy produces.    *)
(***************************************************************************)
EXTENDS Integers, Sequences, FiniteSets, TLC

VARIABLES
    excel_file,     \* st.file_uploader value, line 54
    pdf_file,       \* st.file_uploader value, line 58
    pc,             \* position of the script
    page,           \* elements the current script run has put on the page
    client,         \* OpenAI client constructed in this run (line 72)
    df,             \* cleaned data frame (lines 78-84)
    revenue_data,   \* numeric 'Net Revenue' series (line 87)
    figs,           \* matplotlib.pyplot's open figures: process-wide, never closed
    img_buffer,     \* PNG bytes of the chart (lines 100-102)
    text_content,   \* text extracted from the PDF (lines 107-111)
    latest_rev,     \* line 115
    previous_rev,   \* line 116
    revenue_growth, \* line 29
    prompt,         \* lines 30-44
    sent,           \* requests the completion endpoint received in this run (line 46)
    summary,        \* line 117
    font_family,    \* lines 128 / 132
    pdf,            \* the FPDF document: registered fonts and content (lines 121-147)
    download,       \* data of the st.download_button (line 157)
    charts,         \* images written by plt.savefig so far, with the series plotted
    runs            \* presses of "Generate Full Report" so far

vars == <<excel_file, pdf_file, pc, page, client, df, revenue_data, figs,
          img_buffer, text_content, latest_rev, previous_rev, revenue_growth,
          prompt, sent, summary, font_family, pdf, download, charts, runs>>

\* the names bound by one script run (everything but the widgets and the
\* process-wide state)
locals == <<client, df, revenue_data, img_buffer, text_content, latest_rev,
            previous_rev, revenue_growth, prompt, sent, summary, font_family,
            pdf, download>>

(***************************************************************************)
(* Bounds of the model                                                     *)
(***************************************************************************)
MaxPeriods == 5
MaxIrregular == 1
MaxRuns == 2

(***************************************************************************)
(* Program constants                                                       *)
(***************************************************************************)
\* the prior value read one period too late
PrevOffsetShort == 5 - 1

PrevOffset == 5
PromptTextLimit == 4000
\* OpenAI(api_key=...) keeps the client's default max_retries
DefaultMaxRetries == 2

None == <<>>
Some(v) == <<v>>

(***************************************************************************)
(* Floats                                                                  *)
(***************************************************************************)
Fin(n, d) == [k |-> "fin", n |-> n, d |-> d]
NaN == [k |-> "nan", n |-> 0, d |-> 1]
PosInf == [k |-> "inf", n |-> 0, d |-> 1]
NegInf == [k |-> "ninf", n |-> 0, d |-> 1]

Abs(x) == IF x < 0 THEN -x ELSE x

(***************************************************************************)
(* Inputs                                                                  *)
(***************************************************************************)
TextCell == [k |-> "text", v |-> 0]
NumCell(v) == [k |-> "num", v |-> v]
Cells == {TextCell, NumCell(0), NumCell(3000)}
\* the latest period also takes a second non-zero value
LatestCells == Cells \cup {NumCell(5000)}

SubHeader == "3 Months Ending"
NetRevenue == "Net Revenue"

\* the cells of a sheet row: the first data column, then one cell per period
\* the cells of s that are not the regular non-zero number
Irregular(s) == Cardinality({i \in DOMAIN s : s[i] # NumCell(3000)})

\* the periods before the latest, at most MaxIrregular of them irregular
Earlier(n) == {s \in [1..n -> Cells] : Irregular(s) <= MaxIrregular}

Rows == {<<>>, <<TextCell>>} \cup
        UNION {{<<TextCell>> \o s \o <<c>> : s \in Earlier(n), c \in LatestCells} :
               n \in 0..(MaxPeriods - 1)}

ExcelFiles ==
    {[sheet |-> FALSE, labels |-> {SubHeader, NetRevenue}, cols |-> <<>>],
     [sheet |-> TRUE, labels |-> {NetRevenue}, cols |-> <<TextCell, NumCell(3000)>>],
     [sheet |-> TRUE, labels |-> {SubHeader}, cols |-> <<TextCell, NumCell(3000)>>]}
    \cup {[sheet |-> TRUE, labels |-> {SubHeader, NetRevenue}, cols |-> r] : r \in Rows}

\* a page's text is a sequence of code points
PdfFiles == {[valid |-> FALSE, pages |-> <<>>],
             [valid |-> TRUE, pages |-> << <<83, 73>>, <<67>> >>]}

\* texts the completion endpoint may answer with (code points): plain ASCII,
\* and one holding an en dash (U+2013)
Responses == {<<79, 75>>, <<79, 8211, 75>>}

FontFiles == {"DejaVuSans.ttf", "DejaVuSans-Bold.ttf"}

(***************************************************************************)
(* Page elements                                                           *)
(***************************************************************************)
Write(t) == [kind |-> "write", text |-> t]
Error(t) == [kind |-> "error", text |-> t]
Exception(t) == [kind |-> "exception", text |-> t]
Success == [kind |-> "success", text |-> "--- Report finished successfully! ---"]
Balloons == [kind |-> "balloons", text |-> ""]
DownloadButton == [kind |-> "download_button", text |-> "Download SICOM_Report.pdf"]
MissingInput == Error("Please make sure both files are uploaded before generating the report.")
FontWarning == Error("Font files not found. Falling back to Arial")

\* the texts of the exceptions the pipeline's library calls raise
NoSheetMsg == "Worksheet named 'Income Statement' not found"
NoColumnMsg == "index 0 is out of bounds for axis 0 with size 0"
NoLabelMsg == "['3 Months Ending'] not found in axis"
NoRowMsg == "'Net Revenue'"
EmptyPlotMsg == "no numeric data to plot"
BadPdfMsg == "Failed to open stream"
OutOfBoundsMsg == "single positional indexer is out-of-bounds"
ApiErrorMsg == "Connection error."
EncodingMsg == "Character outside the range of characters supported by the font used"
SubsetMsg == "font subsetting failed"

(***************************************************************************)
(* Spreadsheet normaliser: pd.to_numeric(..., errors='coerce'), line 87    *)
(***************************************************************************)
ToNumeric(cell) == IF cell.k = "num" THEN Fin(cell.v, 1) ELSE NaN

CoerceRow(cells) == [i \in 1..Len(cells) |-> ToNumeric(cells[i])]

(***************************************************************************)
(* numpy float64 arithmetic of line 29: a division by zero raises nothing, *)
(* it yields inf, -inf or nan; nan propagates through every operation      *)
(***************************************************************************)
Norm(n, d) == IF d < 0 THEN Fin(-n, -d) ELSE Fin(n, d)

Neg(a) == CASE a.k = "fin" -> Fin(-a.n, a.d)
            [] a.k = "inf" -> NegInf
            [] a.k = "ninf" -> PosInf
            [] OTHER -> NaN

FSub(a, b) ==
    CASE a.k = "nan" \/ b.k = "nan" -> NaN
      [] a.k = "fin" /\ b.k = "fin" -> Fin(a.n * b.d - b.n * a.d, a.d * b.d)
      [] a.k = "fin" -> Neg(b)
      [] b.k = "fin" -> a
      [] OTHER -> IF a.k = b.k THEN NaN ELSE a

FDiv(a, b) ==
    CASE a.k = "nan" \/ b.k = "nan" -> NaN
      [] a.k = "fin" /\ b.k = "fin" ->
            IF b.n # 0 THEN Norm(a.n * b.d, a.d * b.n)
            ELSE IF a.n = 0 THEN NaN
            ELSE IF a.n > 0 THEN PosInf ELSE NegInf
      [] a.k = "fin" -> Fin(0, 1)
      [] b.k = "fin" -> IF b.n < 0 THEN Neg(a) ELSE a
      [] OTHER -> NaN

FMul(a, c) ==
    CASE a.k = "nan" -> NaN
      [] a.k = "fin" -> Fin(a.n * c, a.d)
      [] OTHER -> IF c = 0 THEN NaN ELSE IF c < 0 THEN Neg(a) ELSE a

\* line 29 with a guard that reports no change on a zero denominator
GrowthGuarded(latest, previous) ==
    IF previous = Fin(0, 1) THEN Fin(0, 1)
    ELSE FMul(FDiv(FSub(latest, previous), previous), 100)

\* line 29 on values whose missing entries were filled with zero
GrowthNanAsZero(latest, previous) ==
    LET z(x) == IF x.k = "nan" THEN Fin(0, 1) ELSE x
    IN  FMul(FDiv(FSub(z(latest), z(previous)), z(previous)), 100)

\* line 29: ((latest_revenue - previous_revenue) / previous_revenue) * 100
Growth(latest, previous) == FMul(FDiv(FSub(latest, previous), previous), 100)

(***************************************************************************)
(* Format specifications of the prompt template, lines 32-34               *)
(***************************************************************************)
\* a / d rounded to the nearest integer, ties to even (a >= 0, d > 0)
RoundHalfEven(a, d) ==
    LET q == a \div d
        r == a % d
    IN  IF 2 * r > d \/ (2 * r = d /\ q % 2 = 1) THEN q + 1 ELSE q

RECURSIVE Groups(_)
\* the thousands groups of n >= 0, most significant first
Groups(n) == IF n < 1000 THEN <<n>> ELSE Append(Groups(n \div 1000), n % 1000)

\* {x:,.0f}
Format0f(x) ==
    IF x.k = "fin"
    THEN [k |-> "fin", neg |-> x.n < 0, digits |-> Groups(RoundHalfEven(Abs(x.n), x.d))]
    ELSE [k |-> x.k, neg |-> x.k = "ninf", digits |-> <<>>]

\* {x:.2f}: the digits are the value in hundredths
Format2f(x) ==
    IF x.k = "fin"
    THEN [k |-> "fin", neg |-> x.n < 0, digits |-> <<RoundHalfEven(Abs(x.n) * 100, x.d)>>]
    ELSE [k |-> x.k, neg |-> x.k = "ninf", digits |-> <<>>]

Prefix(s, n) == SubSeq(s, 1, IF Len(s) < n THEN Len(s) ELSE n)

\* lines 30-44
BuildPrompt(text, latest, previous, growth) ==
    [latest |-> Format0f(latest),
     previous |-> Format0f(previous),
     growth |-> Format2f(growth),
     text |-> Prefix(text, PromptTextLimit)]

(***************************************************************************)
(* Metric selection, lines 115-116                                         *)
(***************************************************************************)
\* iloc[-1] raises IndexError on an empty series, iloc[-5] on fewer than 5
SelectRaises(series) == Len(series) < PrevOffset

LatestRev(series) == series[Len(series)]

\* iloc[-4] in place of iloc[-5]
PreviousRevNear(series) == series[Len(series) - PrevOffset + 2]

PreviousRev(series) == series[Len(series) - PrevOffset + 1]

(***************************************************************************)
(* Chart renderer, lines 92-102, on pyplot's process-wide figure list      *)
(***************************************************************************)
EmptyFigure == [bars |-> <<>>, title |-> "", xlabel |-> "", ylabel |-> "", rotation |-> 0]

\* plt.gcf() in place of plt.figure(): the figure a previous run left open is reused
OpenFigureReuse(fs) == IF fs = <<>> THEN <<EmptyFigure>> ELSE fs

\* plt.figure(figsize=(10, 6)): a new figure, which becomes the current one
OpenFigure(fs) == Append(fs, EmptyFigure)

\* Series.plot(kind='bar') draws on the current figure's axes
PlotBar(fs, series) == [fs EXCEPT ![Len(fs)].bars = @ \o series]

\* plt.title / xlabel / ylabel / xticks act on the current axes
Decorate(fs) ==
    [fs EXCEPT ![Len(fs)].title = "CIM Financials Quarterly Revenue",
               ![Len(fs)].xlabel = "Quarter",
               ![Len(fs)].ylabel = "Revenue (in thousands)",
               ![Len(fs)].rotation = 45]

\* plt.savefig(img_buffer, format='png') encodes the current figure
SaveFig(fs) == [format |-> "png", figure |-> fs[Len(fs)]]

(***************************************************************************)
(* Document text extractor, lines 107-111                                  *)
(***************************************************************************)
RECURSIVE Concat(_)
Concat(pages) == IF pages = <<>> THEN <<>> ELSE Head(pages) \o Concat(Tail(pages))

(***************************************************************************)
(* Report assembler, lines 121-157                                         *)
(***************************************************************************)
\* fonts registered by the two add_font calls before one of them raises
RegisteredFonts(present) ==
    IF "DejaVuSans.ttf" \notin present THEN {}
    ELSE IF "DejaVuSans-Bold.ttf" \notin present THEN {<<"DejaVu", "">>}
    ELSE {<<"DejaVu", "">>, <<"DejaVu", "B">>}

\* the fallback taken only when the regular face is missing
FontFamilyRegularOnly(present) == IF "DejaVuSans.ttf" \in present THEN "DejaVu" ELSE "Arial"

\* FileNotFoundError is raised when either file is missing
FontFamily(present) == IF FontFiles \subseteq present THEN "DejaVu" ELSE "Arial"

\* a built-in (core) font encodes its text as latin-1
Latin1(text) == \A i \in 1..Len(text) : text[i] < 256

TitleText == <<83, 73, 67, 79, 77>>

\* cell / multi_cell raise on text the selected font cannot encode
AssembleRaises(family, text) == family = "Arial" /\ ~Latin1(text)

Document(fonts, family, text, image) ==
    [fonts |-> fonts,
     content |-> <<[el |-> "cell", font |-> <<family, "B">>, text |-> TitleText, image |-> <<>>],
                   [el |-> "multi_cell", font |-> <<family, "">>, text |-> text, image |-> <<>>],
                   [el |-> "image", font |-> <<family, "">>, text |-> <<>>, image |-> image]>>]

\* bytes(pdf.output())
Output(doc) == <<"%PDF">> \o doc.content

(***************************************************************************)
(* The script                                                              *)
(***************************************************************************)
Resting == {"idle", "rejected", "ready", "failed"}

\* the metric selection placed right after the normaliser, before the chart
AfterSelectFirst(p) ==
    CASE p = "client" -> "excel"
      [] p = "excel" -> "numeric"
      [] p = "numeric" -> "select"
      [] p = "select" -> "chart"
      [] p = "chart" -> "pdftext"
      [] p = "pdftext" -> "summary"
      [] p = "summary" -> "api"
      [] p = "api" -> "fonts"
      [] p = "fonts" -> "assemble"
      [] p = "assemble" -> "deliver"
      [] OTHER -> "ready"

\* the order of the statement blocks inside the try, lines 70-160
After(p) ==
    CASE p = "client" -> "excel"        \* lines 72-73, then 76-85
      [] p = "excel" -> "numeric"       \* then 87-88
      [] p = "numeric" -> "chart"       \* then 91-103
      [] p = "chart" -> "pdftext"       \* then 106-112
      [] p = "pdftext" -> "select"      \* then 115-116
      [] p = "select" -> "summary"      \* then generate_summary, 28-45
      [] p = "summary" -> "api"         \* then 46-48
      [] p = "api" -> "fonts"           \* then 120-133
      [] p = "fonts" -> "assemble"      \* then 135-149
      [] p = "assemble" -> "deliver"    \* then 152-160
      [] OTHER -> "ready"

\* a re-run of the script starts from an empty page and a fresh namespace
Fresh ==
    /\ page' = <<>>
    /\ client' = FALSE
    /\ df' = None
    /\ revenue_data' = None
    /\ img_buffer' = None
    /\ text_content' = None
    /\ latest_rev' = None
    /\ previous_rev' = None
    /\ revenue_growth' = None
    /\ prompt' = None
    /\ sent' = <<>>
    /\ summary' = None
    /\ font_family' = None
    /\ pdf' = None
    /\ download' = None

\* a handler that swallows the exception
RaisedSilently(written, e) == written

\* the outer handler, lines 162-164: the error is displayed and the run ends
Raised(written, e) == written \o <<Error(e), Exception(e)>>

\* the script has run once with the API key present (lines 18-22) and no upload
Init ==
    /\ excel_file = None
    /\ pdf_file = None
    /\ pc = "idle"
    /\ page = <<>>
    /\ client = FALSE
    /\ df = None
    /\ revenue_data = None
    /\ figs = <<>>
    /\ img_buffer = None
    /\ text_content = None
    /\ latest_rev = None
    /\ previous_rev = None
    /\ revenue_growth = None
    /\ prompt = None
    /\ sent = <<>>
    /\ summary = None
    /\ font_family = None
    /\ pdf = None
    /\ download = None
    /\ charts = <<>>
    /\ runs = 0

\* the user picks a spreadsheet (line 54); the script re-runs, button unpressed.
\* A file, once picked, stays for the session.
UploadExcel(f) ==
    /\ pc \in Resting
    /\ excel_file = None
    /\ excel_file' = Some(f)
    /\ pc' = "idle"
    /\ Fresh
    /\ UNCHANGED <<pdf_file, figs, charts, runs>>

\* the user picks a PDF (line 58)
UploadPdf(f) ==
    /\ pc \in Resting
    /\ pdf_file = None
    /\ pdf_file' = Some(f)
    /\ pc' = "idle"
    /\ Fresh
    /\ UNCHANGED <<excel_file, figs, charts, runs>>

\* the user presses "Generate Full Report" (line 63)
Click ==
    /\ pc \in Resting
    /\ runs < MaxRuns
    /\ runs' = runs + 1
    /\ pc' = "gate"
    /\ Fresh
    /\ UNCHANGED <<excel_file, pdf_file, figs, charts>>

\* the user presses the download button: the script re-runs, button unpressed
ClickDownload ==
    /\ pc = "ready"
    /\ pc' = "idle"
    /\ Fresh
    /\ UNCHANGED <<excel_file, pdf_file, figs, charts, runs>>

\* the gate with 'or' in place of 'and'
EitherUploaded(xl, pf) == xl # None \/ pf # None

\* line 66
BothUploaded(xl, pf) == xl # None /\ pf # None

GatePass ==
    /\ pc = "gate"
    /\ BothUploaded(excel_file, pdf_file)
    /\ pc' = "client"
    /\ UNCHANGED <<excel_file, pdf_file, page, figs, charts, runs, locals>>

\* lines 166-167
GateReject ==
    /\ pc = "gate"
    /\ ~BothUploaded(excel_file, pdf_file)
    /\ page' = Append(page, MissingInput)
    /\ pc' = "rejected"
    /\ UNCHANGED <<excel_file, pdf_file, figs, charts, runs, locals>>

\* lines 72-73
InitClient ==
    /\ pc = "client"
    /\ client' = TRUE
    /\ page' = Append(page, Write("Checkpoint 4"))
    /\ pc' = After(pc)
    /\ UNCHANGED <<excel_file, pdf_file, figs, charts, runs, df, revenue_data,
                   img_buffer, text_content, latest_rev, previous_rev,
                   revenue_growth, prompt, sent, summary, font_family, pdf, download>>

\* the exception lines 78-84 raise on this file, or <<>>
LoadExcelError(f) ==
    IF ~f.sheet THEN <<NoSheetMsg>>                      \* read_excel: no such sheet
    ELSE IF f.cols = <<>> THEN <<NoColumnMsg>>           \* df.columns[0]
    ELSE IF SubHeader \notin f.labels THEN <<NoLabelMsg>> \* df.drop('3 Months Ending')
    ELSE <<>>

\* lines 76-85
LoadExcel ==
    /\ pc = "excel"
    /\ LET f == excel_file[1]
           e == LoadExcelError(f)
           w == <<Write("Checkpoint 5")>>
       IN  IF e # <<>>
           THEN /\ page' = page \o Raised(w, e[1])
                /\ pc' = "failed"
                /\ df' = df
           ELSE /\ df' = Some([labels |-> f.labels \ {SubHeader}, cols |-> Tail(f.cols)])
                /\ page' = page \o w \o <<Write("Checkpoint 5.2")>>
                /\ pc' = After(pc)
    /\ UNCHANGED <<excel_file, pdf_file, figs, charts, runs, client, revenue_data,
                   img_buffer, text_content, latest_rev, previous_rev,
                   revenue_growth, prompt, sent, summary, font_family, pdf, download>>

\* lines 87-88
PrepareRevenue ==
    /\ pc = "numeric"
    /\ IF NetRevenue \notin df[1].labels
       THEN /\ page' = page \o Raised(<<>>, NoRowMsg)      \* df.loc['Net Revenue']
            /\ pc' = "failed"
            /\ revenue_data' = revenue_data
       ELSE /\ revenue_data' = Some(CoerceRow(df[1].cols))
            /\ page' = Append(page, Write("Checkpoint 5.5"))
            /\ pc' = After(pc)
    /\ UNCHANGED <<excel_file, pdf_file, figs, charts, runs, client, df,
                   img_buffer, text_content, latest_rev, previous_rev,
                   revenue_growth, prompt, sent, summary, font_family, pdf, download>>

\* lines 91-103
RenderChart ==
    /\ pc = "chart"
    /\ LET fs == Decorate(PlotBar(OpenFigure(figs), revenue_data[1]))
       IN  /\ figs' = fs
           /\ img_buffer' = Some(SaveFig(fs))
           /\ charts' = Append(charts, [series |-> revenue_data[1], image |-> SaveFig(fs)])
    /\ page' = page \o <<Write("Checkpoint 6"), Write("Checkpoint 6.1")>>
    /\ pc' = After(pc)
    /\ UNCHANGED <<excel_file, pdf_file, runs, client, df, revenue_data,
                   text_content, latest_rev, previous_rev,
                   revenue_growth, prompt, sent, summary, font_family, pdf, download>>

\* line 93 on a series without periods: the bar plot of pandas may raise on
\* empty data, after plt.figure has opened the figure
RenderChartEmpty ==
    /\ pc = "chart"
    /\ revenue_data[1] = <<>>
    /\ figs' = OpenFigure(figs)
    /\ page' = page \o Raised(<<Write("Checkpoint 6")>>, EmptyPlotMsg)
    /\ pc' = "failed"
    /\ UNCHANGED <<excel_file, pdf_file, charts, runs, client, df, revenue_data, img_buffer,
                   text_content, latest_rev, previous_rev,
                   revenue_growth, prompt, sent, summary, font_family, pdf, download>>

\* lines 106-112
ExtractText ==
    /\ pc = "pdftext"
    /\ LET f == pdf_file[1]
           w == <<Write("Checkpoint 7")>>
       IN  IF ~f.valid
           THEN /\ page' = page \o Raised(w, BadPdfMsg)         \* fitz.open
                /\ pc' = "failed"
                /\ text_content' = Some(<<>>)
           ELSE /\ text_content' = Some(Concat(f.pages))
                /\ page' = page \o w \o <<Write("Checkpoint 7.1")>>
                /\ pc' = After(pc)
    /\ UNCHANGED <<excel_file, pdf_file, figs, charts, runs, client, df, revenue_data,
                   img_buffer, latest_rev, previous_rev,
                   revenue_growth, prompt, sent, summary, font_family, pdf, download>>

\* lines 115-116
SelectRevenue ==
    /\ pc = "select"
    /\ IF SelectRaises(revenue_data[1])
       THEN /\ page' = page \o Raised(<<>>, OutOfBoundsMsg)
            /\ pc' = "failed"
            /\ UNCHANGED <<latest_rev, previous_rev>>
       ELSE /\ latest_rev' = Some(LatestRev(revenue_data[1]))
            /\ previous_rev' = Some(PreviousRev(revenue_data[1]))
            /\ pc' = After(pc)
            /\ page' = page
    /\ UNCHANGED <<excel_file, pdf_file, figs, charts, runs, client, df, revenue_data,
                   img_buffer, text_content,
                   revenue_growth, prompt, sent, summary, font_family, pdf, download>>

\* generate_summary, lines 28-45
ComputeGrowth ==
    /\ pc = "summary"
    /\ LET g == Growth(latest_rev[1], previous_rev[1])
       IN  /\ revenue_growth' = Some(g)
           /\ prompt' = Some(BuildPrompt(text_content[1], latest_rev[1], previous_rev[1], g))
    /\ page' = page \o <<Write("Checkpoint A"), Write("Checkpoint B")>>
    /\ pc' = After(pc)
    /\ UNCHANGED <<excel_file, pdf_file, figs, charts, runs, client, df, revenue_data,
                   img_buffer, text_content, latest_rev, previous_rev,
                   sent, summary, font_family, pdf, download>>

\* the requests one create() call puts on the wire when its first
\* attempts - 1 tries fail with a retryable error
Requests(p, attempts) == [i \in 1..attempts |-> p]

\* generate_summary, lines 46-48, and the assignment of line 117; the client
\* re-sends a request that failed with a connection error, a rate limit or a
\* server error, up to max_retries times
CallApi(response, attempts) ==
    /\ pc = "api"
    /\ sent' = sent \o Requests(prompt[1], attempts)
    /\ summary' = Some(response)
    /\ page' = Append(page, Write("Checkpoint C"))
    /\ pc' = After(pc)
    /\ UNCHANGED <<excel_file, pdf_file, figs, charts, runs, client, df, revenue_data,
                   img_buffer, text_content, latest_rev, previous_rev,
                   revenue_growth, prompt, font_family, pdf, download>>

\* line 46 raised and the script called create() a second time
CallApiErrorRetry(attempts) ==
    /\ pc = "api"
    /\ sent' = sent \o Requests(prompt[1], attempts) \o Requests(prompt[1], attempts)
    /\ page' = page \o Raised(<<Write("Checkpoint B")>>, ApiErrorMsg)
    /\ pc' = "failed"
    /\ UNCHANGED <<excel_file, pdf_file, figs, charts, runs, client, df, revenue_data,
                   img_buffer, text_content, latest_rev, previous_rev,
                   revenue_growth, prompt, summary, font_family, pdf, download>>

\* line 46 raising: an error that is not retried (authentication) after one
\* attempt, a retryable one after the last retry
CallApiError(attempts) ==
    /\ pc = "api"
    /\ sent' = sent \o Requests(prompt[1], attempts)
    /\ page' = page \o Raised(<<>>, ApiErrorMsg)
    /\ pc' = "failed"
    /\ UNCHANGED <<excel_file, pdf_file, figs, charts, runs, client, df, revenue_data,
                   img_buffer, text_content, latest_rev, previous_rev,
                   revenue_growth, prompt, summary, font_family, pdf, download>>

\* lines 120-133; present: the font files found beside the script
AddFonts(present) ==
    /\ pc = "fonts"
    /\ pdf' = Some([fonts |-> RegisteredFonts(present), content |-> <<>>])
    /\ font_family' = Some(FontFamily(present))
    /\ page' = page \o <<Write("Checkpoint 8")>>
                    \o (IF FontFamily(present) = "Arial" THEN <<FontWarning>> ELSE <<>>)
    /\ pc' = After(pc)
    /\ UNCHANGED <<excel_file, pdf_file, figs, charts, runs, client, df, revenue_data,
                   img_buffer, text_content, latest_rev, previous_rev,
                   revenue_growth, prompt, sent, summary, download>>

\* lines 135-149
Assemble ==
    /\ pc = "assemble"
    /\ IF AssembleRaises(font_family[1], summary[1])
       THEN /\ page' = page \o Raised(<<>>, EncodingMsg)
            /\ pc' = "failed"
            /\ pdf' = pdf
       ELSE /\ pdf' = Some(Document(pdf[1].fonts, font_family[1], summary[1], img_buffer[1]))
            /\ page' = Append(page, Write("Checkpoint 9"))
            /\ pc' = After(pc)
    /\ UNCHANGED <<excel_file, pdf_file, figs, charts, runs, client, df, revenue_data,
                   img_buffer, text_content, latest_rev, previous_rev,
                   revenue_growth, prompt, sent, summary, font_family, download>>

\* lines 152-160
Deliver ==
    /\ pc = "deliver"
    /\ download' = Some(Output(pdf[1]))
    /\ page' = page \o <<Success, Balloons, DownloadButton>>
    /\ pc' = After(pc)
    /\ UNCHANGED <<excel_file, pdf_file, figs, charts, runs, client, df, revenue_data,
                   img_buffer, text_content, latest_rev, previous_rev,
                   revenue_growth, prompt, sent, summary, font_family, pdf>>

\* line 157 raising: pdf.output() embeds the TrueType faces, and a face that
\* cannot be subset makes it raise after lines 152-153 have run
DeliverError ==
    /\ pc = "deliver"
    /\ font_family = Some("DejaVu")
    /\ page' = page \o Raised(<<Success, Balloons>>, SubsetMsg)
    /\ pc' = "failed"
    /\ UNCHANGED <<excel_file, pdf_file, figs, charts, runs, client, df, revenue_data,
                   img_buffer, text_content, latest_rev, previous_rev,
                   revenue_growth, prompt, sent, summary, font_family, pdf, download>>

Next ==
    \/ \E f \in ExcelFiles : UploadExcel(f)
    \/ \E f \in PdfFiles : UploadPdf(f)
    \/ Click
    \/ ClickDownload
    \/ GatePass
    \/ GateReject
    \/ InitClient
    \/ LoadExcel
    \/ PrepareRevenue
    \/ RenderChart
    \/ RenderChartEmpty
    \/ ExtractText
    \/ SelectRevenue
    \/ ComputeGrowth
    \/ \E r \in Responses, n \in 1..(DefaultMaxRetries + 1) : CallApi(r, n)
    \/ \E n \in {1, DefaultMaxRetries + 1} : CallApiError(n)
    \/ \E present \in SUBSET FontFiles : AddFonts(present)
    \/ Assemble
    \/ Deliver
    \/ DeliverError

Spec == Init /\ [][Next]_vars

(***************************************************************************)
(* Properties                                                              *)
(***************************************************************************)
Has(m) == \E i \in DOMAIN page : page[i] = m

Count(m) == Cardinality({i \in DOMAIN page : page[i] = m})

Failure == \E i \in DOMAIN page : page[i].kind = "exception"

Zero == Fin(0, 1)

\* no local of the run is bound and nothing was sent or offered
NothingInvoked ==
    /\ ~client /\ df = None /\ revenue_data = None /\ img_buffer = None
    /\ text_content = None /\ latest_rev = None /\ previous_rev = None
    /\ revenue_growth = None /\ prompt = None /\ sent = <<>> /\ summary = None
    /\ font_family = None /\ pdf = None /\ download = None

\* C1: while the spreadsheet or the PDF is absent no run gets past the gate:
\* a press of the button ends with the missing-input error as the only element
\* of the page, and no component of the pipeline has been invoked.
C1_MissingInputStopsAtGate ==
    (excel_file = None \/ pdf_file = None) =>
        /\ pc \in {"idle", "gate", "rejected"}
        /\ NothingInvoked
        /\ pc = "rejected" => page = <<MissingInput>>
        /\ pc # "rejected" => page = <<>>

C1_Witness ==
    /\ pc = "rejected"
    /\ excel_file # None
    /\ pdf_file = None
    /\ page = <<MissingInput>>

ShortSeries == revenue_data # None /\ Len(revenue_data[1]) < 5

NormalizeEntered == Has(Write("Checkpoint 5"))
NormalizeDone == Has(Write("Checkpoint 5.5"))
ChartEntered == Has(Write("Checkpoint 6"))
ChartDone == Has(Write("Checkpoint 6.1"))
ExtractEntered == Has(Write("Checkpoint 7"))
ExtractDone == Has(Write("Checkpoint 7.1"))
DeriveEntered == pc \in {"select", "summary"} \/ latest_rev # None \/ Has(Exception(OutOfBoundsMsg))
DeriveDone == revenue_growth # None
NarrativeEntered == Has(Write("Checkpoint B"))
NarrativeDone == Has(Write("Checkpoint C"))
AssembleEntered == Has(Write("Checkpoint 8"))
AssembleDone == Has(Write("Checkpoint 9"))
ReadyReached == Has(DownloadButton)

\* every mark of the sequence is preceded by all the earlier ones
InOrder(marks) == \A i \in DOMAIN marks : marks[i] => \A j \in 1..(i - 1) : marks[j]

NoStageTwice ==
    \A i, j \in DOMAIN page :
        (page[i] = page[j] /\ page[i].kind \in {"write", "success", "download_button"}) => i = j

\* C3 as stated: the stages are entered in the order Normalize, DeriveMetrics,
\* RenderChart, ExtractText, GenerateNarrative, AssembleReport, Ready.
C3_ClaimedOrder ==
    /\ InOrder(<<NormalizeEntered, NormalizeDone, DeriveEntered, DeriveDone,
                 ChartEntered, ChartDone, ExtractEntered, ExtractDone,
                 NarrativeEntered, NarrativeDone, AssembleEntered, AssembleDone,
                 ReadyReached>>)
    /\ NoStageTwice

\* C3 amended: the stages are entered in the order Normalize, RenderChart,
\* ExtractText, DeriveMetrics, GenerateNarrative, AssembleReport, Ready; none is
\* entered before its predecessor completed, and none is entered twice.
C3_StageOrder ==
    /\ InOrder(<<NormalizeEntered, NormalizeDone, ChartEntered, ChartDone,
                 ExtractEntered, ExtractDone, DeriveEntered, DeriveDone,
                 NarrativeEntered, NarrativeDone, AssembleEntered, AssembleDone,
                 ReadyReached>>)
    /\ NoStageTwice

C3_Witness ==
    /\ pc = "ready"
    /\ ReadyReached
    /\ DeriveDone
    /\ ChartDone

ZeroPrevious == previous_rev # None /\ previous_rev[1] = Zero

\* C4 as stated: a run whose value 4 positions before the last is zero fails
\* with a division error: the service is not called and no download is offered.
C4_ZeroPreviousFails ==
    ZeroPrevious =>
        /\ pc \notin {"api", "fonts", "assemble", "deliver", "ready"}
        /\ sent = <<>>
        /\ download = None

\* C4 amended: with a zero value 4 positions before the last, the growth is
\* computed without an error: it is +inf or -inf by the sign of the latest
\* value, and missing when the latest value is zero or missing; the prompt
\* carries it, and a run that fails afterwards has already issued its request.
C4_ZeroPreviousGivesInf ==
    ZeroPrevious =>
        /\ revenue_growth # None =>
              /\ revenue_growth[1] =
                    (IF latest_rev[1].k = "nan" \/ latest_rev[1].n = 0 THEN NaN
                     ELSE IF latest_rev[1].n > 0 THEN PosInf ELSE NegInf)
              /\ prompt[1].growth.k = revenue_growth[1].k
              /\ prompt[1].growth.k \in {"inf", "ninf", "nan"}
        /\ pc = "failed" => sent # <<>>
        /\ pc \in {"fonts", "assemble", "deliver", "ready"} => sent # <<>>

C4_Witness ==
    /\ ZeroPrevious
    /\ pc = "ready"
    /\ revenue_growth = Some(PosInf)
    /\ download # None

\* C5: for a series of at least 5 periods whose value 4 positions before the
\* last is a non-zero number, latest is the last entry, previous is the entry 4
\* positions before it, the growth is (latest - previous) / previous * 100 (missing
\* when latest is missing), and the prompt carries it rounded to two decimals.
C5_GrowthFormula ==
    (/\ revenue_growth # None
     /\ previous_rev[1].k = "fin"
     /\ previous_rev[1].n # 0) =>
        LET s == revenue_data[1]
            l == s[Len(s)]
            p == s[Len(s) - 4]
            g == revenue_growth[1]
            shown == prompt[1].growth
        IN  /\ Len(s) >= 5
            /\ latest_rev[1] = l
            /\ previous_rev[1] = p
            /\ l.k = "nan" => g = NaN /\ shown.k = "nan"
            /\ l.k = "fin" =>
                  /\ g.k = "fin" /\ g.d > 0
                  /\ g.n * l.d * p.n = (l.n * p.d - p.n * l.d) * 100 * g.d
                  /\ shown.k = "fin"
                  /\ shown.neg = (g.n < 0)
                  /\ 2 * Abs(shown.digits[1] * g.d - Abs(g.n) * 100) <= g.d

C5_Witness ==
    /\ revenue_growth # None
    /\ Len(revenue_data[1]) >= 5
    /\ previous_rev[1] = Fin(3000, 1)
    /\ revenue_data[1][Len(revenue_data[1]) - 3] # previous_rev[1]
    /\ latest_rev[1] = Fin(5000, 1)
    /\ prompt[1].growth = [k |-> "fin", neg |-> FALSE, digits |-> <<6667>>]

Fallback == font_family = Some("Arial")

\* C6 as stated: with a font file missing and all earlier stages succeeded the
\* report assembler does not fail.
C6_FallbackNeverFails ==
    Fallback => pc # "failed"

\* C6 amended: a missing font file does not fail the run by itself: exactly then
\* the assembler selects the built-in font and shows the warning.  The run
\* reaches Ready, with a non-empty PDF set in the built-in font, when the
\* narrative is encodable as Latin-1; otherwise report assembly fails.
C6_FontFallback ==
    font_family # None =>
        /\ Fallback <=> Has(FontWarning)
        /\ Fallback <=> pdf[1].fonts # {<<"DejaVu", "">>, <<"DejaVu", "B">>}
        /\ Fallback =>
              /\ Latin1(summary[1]) => pc \in {"assemble", "deliver", "ready"}
              /\ ~Latin1(summary[1]) => pc \in {"assemble", "failed"}
              /\ pc = "failed" => Has(Exception(EncodingMsg))
              /\ pc = "ready" =>
                    /\ download # None
                    /\ Len(download[1]) > 1
                    /\ \A i \in DOMAIN pdf[1].content : pdf[1].content[i].font[1] = "Arial"

C6_Witness ==
    /\ Fallback
    /\ pc = "ready"
    /\ Has(FontWarning)
    /\ pdf[1].fonts = {<<"DejaVu", "">>}
    /\ download # None

\* C7: a run is Failed exactly when the page shows an error trace; the error
\* and its trace are then the last two elements of the page and appear once,
\* nothing was offered for download, and Ready and Failed exclude each other.
C7_FailureIsTerminal ==
    /\ Failure <=> pc = "failed"
    /\ pc = "failed" =>
          /\ Len(page) >= 2
          /\ page[Len(page)].kind = "exception"
          /\ page[Len(page) - 1] = Error(page[Len(page)].text)
          /\ Cardinality({i \in DOMAIN page : page[i].kind = "exception"}) = 1
          /\ download = None
          /\ ~Has(DownloadButton)
    /\ (Has(DownloadButton) \/ download # None) <=> pc = "ready"

C7_Witness ==
    /\ pc = "failed"
    /\ Has(Exception(EncodingMsg))
    /\ summary # None
    /\ download = None

\* C8: two charts saved in one process from the same series are the same image,
\* and each shows the bars of its own series only.
C8_ChartIdempotent ==
    \A i, j \in DOMAIN charts :
        /\ charts[i].image.figure.bars = charts[i].series
        /\ charts[i].series = charts[j].series => charts[i].image = charts[j].image

C8_Witness ==
    /\ Len(charts) = 2
    /\ Len(figs) = 2
    /\ charts[1].series = charts[2].series
    /\ Len(charts[2].series) = 5

\* C9 as stated: the service receives at most one request per run, exactly one
\* in a run that reaches Ready, and only after normalisation, chart, text
\* extraction and selection succeeded.
C9_OneRequest ==
    /\ Len(sent) <= 1
    /\ pc = "ready" => Len(sent) = 1
    /\ sent # <<>> =>
          /\ NormalizeDone /\ ChartDone /\ ExtractDone
          /\ latest_rev # None /\ previous_rev # None

\* C9 amended: the script calls the service at most once per run and exactly
\* once in a run that reaches Ready, only after normalisation, chart, text
\* extraction and selection succeeded; the service receives that call's one
\* prompt at least once and at most 1 + max_retries times.
C9_OneCall ==
    /\ Count(Write("Checkpoint B")) <= 1
    /\ Count(Write("Checkpoint C")) <= 1
    /\ pc = "ready" => Count(Write("Checkpoint B")) = 1 /\ sent # <<>>
    /\ Len(sent) <= 1 + DefaultMaxRetries
    /\ sent # <<>> =>
          /\ Has(Write("Checkpoint B"))
          /\ NormalizeDone /\ ChartDone /\ ExtractDone
          /\ img_buffer # None /\ text_content # None
          /\ latest_rev # None /\ previous_rev # None
          /\ \A i \in DOMAIN sent : sent[i] = prompt[1]

C9_Witness ==
    /\ pc = "failed"
    /\ Len(sent) = 1 + DefaultMaxRetries
    /\ Has(Exception(ApiErrorMsg))

MissingSelected ==
    /\ latest_rev # None
    /\ latest_rev[1] = NaN \/ previous_rev[1] = NaN

\* C10: a non-numeric cell is coerced to the missing value without an error;
\* when latest or previous is missing the growth is missing, the prompt carries
\* it, and a run that fails has already issued its request.
C10_MissingValueTolerated ==
    /\ revenue_data # None =>
          /\ Len(revenue_data[1]) = Len(df[1].cols)
          /\ \A i \in DOMAIN revenue_data[1] :
                df[1].cols[i].k = "text" <=> revenue_data[1][i] = NaN
    /\ MissingSelected =>
          /\ revenue_growth # None =>
                /\ revenue_growth[1] = NaN
                /\ prompt[1].growth.k = "nan"
          /\ pc = "failed" => sent # <<>>
          /\ pc \in {"fonts", "assemble", "deliver", "ready"} => sent # <<>> /\ sent[1] = prompt[1]

C10_Witness ==
    /\ MissingSelected
    /\ Len(revenue_data[1]) >= 5
    /\ pc = "ready"
    /\ revenue_growth = Some(NaN)
    /\ sent # <<>>

====
